---- MODULE Spec2Model ----
(***************************************************************************)
(* Model of data_science_tutor.py: ConversationMemory (a bounded log of    *)
(* exchanges kept in st.session_state.chat_history), DataScienceTutor      *)
(* (generate_response around one remote call) and the Streamlit script     *)
(* main(), which is re-run from the top on every user interaction.         *)
(*                                                                         *)
(* Python strings are sequences of one-character strings, so that          *)
(* concatenation, prefixes and line splitting are computed.                *)
(*                                                                         *)
(* Two specifications:                                                     *)
(*   Spec    the two classes driven by arbitrary method calls, the memory  *)
(*           constructed with any max_history in 0..MaxMaxHistory;         *)
(*   SpecUI  the script main(), step by step, over one browser session.    *)
(***************************************************************************)
EXTENDS Integers, Sequences, FiniteSets, TLC

VARIABLES
    session_keys,        \* the keys present in st.session_state
    chat_history,        \* st.session_state.chat_history (when present)
    messages,            \* st.session_state.messages (when present)
    GOOGLE_API_KEY,      \* st.session_state['GOOGLE_API_KEY'] (when present)
    memory,              \* the ConversationMemory object: [max_history]
    tutor,               \* the DataScienceTutor object: [api_key, memory]
    pc,                  \* position of the running script in main()
    user_query,          \* main's local user_query
    response,            \* main's local response
    message_placeholder, \* what the assistant placeholder shows
    op,                  \* the method that returned last
    prev_op,             \* the method that returned before it
    ret,                 \* the string it returned
    ret_history,         \* the list get_conversation_history returned
    remote,              \* what the remote service did in the last call
    prompt,              \* the prompt handed to generate_content last
    added,               \* exchanges passed to add_exchange since the last clear()
    failures             \* number of remote failures so far in the session

vars == <<session_keys, chat_history, messages, GOOGLE_API_KEY, memory, tutor,
          pc, user_query, response, message_placeholder, op, prev_op, ret,
          ret_history, remote, prompt, added, failures>>

----------------------------------------------------------------------------
(* Bounds *)

MaxMaxHistory == 2      \* Spec: max_history is drawn from 0..MaxMaxHistory
MaxAdds == 3            \* Spec: add_exchange calls since History was last empty
MaxMessages == 44       \* SpecUI: length of the on-screen transcript
MaxFailures == 1        \* SpecUI: remote failures in one session

----------------------------------------------------------------------------
(* Texts *)

NL == "\n"

HumanLabel == <<"H","u","m","a","n",":">>
TutorLabel == <<"A","I"," ","T","u","t","o","r",":">>

ErrorPrefix ==
    <<"E","r","r","o","r"," ","g","e","n","e","r","a","t","i","n","g"," ",
      "r","e","s","p","o","n","s","e",":"," ">>

Thinking == <<"T","h","i","n","k","i","n","g",".",".",".">>

\* get_system_prompt().format(date=...): a fixed block, kept as one symbol
SystemPrompt == <<"<system prompt>">>

PreviousConversation ==
    <<"P","r","e","v","i","o","u","s"," ","c","o","n","v","e","r","s","a","t","i","o","n",":">>

Q_a == <<"a">>
Q_b == <<"b", NL, "H","u","m","a","n",":"," ","x">>    \* a two-line question
A_1 == <<"1">>
A_2 == <<"2">>
E_quota == <<"q","u","o","t","a">>

Questions == {Q_a, Q_b}
Answers == {A_1, A_2}
UIQuestions == {Q_a}
RemoteTexts == {A_1}
RemoteErrors == {E_quota}
ApiKeys == {"k1"}

----------------------------------------------------------------------------
(* Python list and string helpers *)

Min(a, b) == IF a < b THEN a ELSE b
Max(a, b) == IF a > b THEN a ELSE b

\* lst[start:] for any integer start
PySliceFrom(lst, start) ==
    LET n == Len(lst)
        s == IF start < 0 THEN Max(n + start, 0) ELSE Min(start, n)
    IN  SubSeq(lst, s + 1, n)

----------------------------------------------------------------------------
(* ConversationMemory *)

Exchange(q, a) == [user |-> q, assistant |-> a]

\* the list the session holds, empty when the key is missing
History == IF "chat_history" \in session_keys THEN chat_history ELSE <<>>

\* line 10
DefaultMaxHistory == 20

\* lines 10-17
ConversationMemory(max_history) == [max_history |-> max_history]

\* add_exchange trimming from the wrong end: keeps the oldest entries
add_exchange_keep_oldest(h, max_history, user_message, assistant_response) ==
    LET appended == Append(h, Exchange(user_message, assistant_response))
    IN  IF Len(appended) > max_history
        THEN SubSeq(appended, 1, max_history)
        ELSE appended

\* lines 27-38, as a function of the list found (or created) in the session
add_exchange(h, max_history, user_message, assistant_response) ==
    LET appended == Append(h, Exchange(user_message, assistant_response))
    IN  IF Len(appended) > max_history
        THEN PySliceFrom(appended, -max_history)
        ELSE appended

\* clear() that leaves the list as it is
clear_history_noop == History

\* line 54
clear_history == <<>>

\* format_for_prompt without the blank line after each pair
RECURSIVE format_for_prompt_no_blank(_)
format_for_prompt_no_blank(history) ==
    IF history = <<>>
    THEN <<>>
    ELSE format_for_prompt_no_blank(SubSeq(history, 1, Len(history) - 1))
           \o HumanLabel \o <<" ">> \o history[Len(history)].user \o <<NL>>
           \o TutorLabel \o <<" ">> \o history[Len(history)].assistant \o <<NL>>

\* lines 64-70, over the list get_conversation_history returned
RECURSIVE format_for_prompt(_)
format_for_prompt(history) ==
    IF history = <<>>
    THEN <<>>
    ELSE format_for_prompt(SubSeq(history, 1, Len(history) - 1))
           \o HumanLabel \o <<" ">> \o history[Len(history)].user \o <<NL>>
           \o TutorLabel \o <<" ">> \o history[Len(history)].assistant \o <<NL, NL>>

----------------------------------------------------------------------------
(* DataScienceTutor *)

\* lines 77-91; genai.configure keeps the key and validates nothing
DataScienceTutor(api_key, mem) == [api_key |-> api_key, memory |-> mem]

NoRemote == [kind |-> "none", stage |-> "none", text |-> <<>>]

\* what can happen inside the try block of generate_response: the call
\* returns a response whose text is T, or something raises an Exception
\* with message m while the model is built, during generate_content, or
\* when response.text is read
Outcomes ==
    {[kind |-> "ok", stage |-> "text", text |-> t] : t \in RemoteTexts}
    \cup {[kind |-> "fail", stage |-> s, text |-> m] :
            s \in {"model", "generate_content", "text"}, m \in RemoteErrors}

\* line 143
build_prompt(conversation_history, user_message) ==
    SystemPrompt \o <<NL, NL>> \o PreviousConversation \o <<NL>>
      \o conversation_history \o <<NL>> \o HumanLabel \o <<" ">> \o user_message
      \o <<NL>> \o TutorLabel

\* generate_response with the model built outside the try block
generate_response_narrow_try(user_message, outcome) ==
    IF outcome.kind = "ok"
    THEN [raises |-> FALSE, value |-> outcome.text]
    ELSE IF outcome.stage = "model"
         THEN [raises |-> TRUE, value |-> <<>>]
         ELSE [raises |-> FALSE, value |-> ErrorPrefix \o outcome.text]

\* generate_response that labels the text it returns
generate_response_labelled(user_message, outcome) ==
    IF outcome.kind = "ok"
    THEN [raises |-> FALSE, value |-> TutorLabel \o <<" ">> \o outcome.text]
    ELSE [raises |-> FALSE, value |-> ErrorPrefix \o outcome.text]

\* lines 124-152: what the call does, returning a value or raising.  Every
\* failure inside the try block is an Exception and reaches the handler.
generate_response(user_message, outcome) ==
    IF outcome.kind = "ok"
    THEN [raises |-> FALSE, value |-> outcome.text]
    ELSE [raises |-> FALSE, value |-> ErrorPrefix \o outcome.text]

\* the prompt generate_content received, if the call got that far
prompt_sent(user_message, outcome) ==
    IF outcome.stage = "model"
    THEN <<>>
    ELSE build_prompt(format_for_prompt(History), user_message)

----------------------------------------------------------------------------
(* Spec: the classes under arbitrary calls *)

Init ==
    /\ session_keys = {"memory", "tutor"}
    /\ chat_history = <<>>
    /\ messages = <<>>
    /\ GOOGLE_API_KEY = ""
    /\ \E n \in 0..MaxMaxHistory, k \in ApiKeys :
          /\ memory = ConversationMemory(n)
          /\ tutor = DataScienceTutor(k, ConversationMemory(n))
    /\ pc = "calls"
    /\ user_query = <<>>
    /\ response = <<>>
    /\ message_placeholder = <<>>
    /\ op = "init"
    /\ prev_op = "init"
    /\ ret = <<>>
    /\ ret_history = <<>>
    /\ remote = NoRemote
    /\ prompt = <<>>
    /\ added = <<>>
    /\ failures = 0

UIVarsUnchanged ==
    UNCHANGED <<messages, GOOGLE_API_KEY, memory, tutor, pc, user_query,
                response, message_placeholder, failures>>

\* op, ret, ret_history, remote and prompt describe the last call only
NoResult ==
    ret' = <<>> /\ ret_history' = <<>> /\ remote' = NoRemote /\ prompt' = <<>>

\* memory.add_exchange(q, a); a may be what generate_response just returned
AddExchange ==
    /\ pc = "calls"
    /\ prev_op' = op
    /\ Len(added) < MaxAdds
    /\ \E q \in Questions :
       \E a \in Answers \cup (IF op = "generate_response" THEN {ret} ELSE {}) :
          /\ chat_history' = add_exchange(History, memory.max_history, q, a)
          /\ added' = Append(added, Exchange(q, a))
    /\ session_keys' = session_keys \cup {"chat_history"}
    /\ op' = "add_exchange"
    /\ NoResult
    /\ UIVarsUnchanged

\* memory.get_conversation_history()
GetConversationHistory ==
    /\ pc = "calls"
    /\ prev_op' = op
    /\ session_keys' = session_keys \cup {"chat_history"}
    /\ chat_history' = History
    /\ ret_history' = History
    /\ op' = "get_conversation_history"
    /\ ret' = <<>> /\ remote' = NoRemote /\ prompt' = <<>>
    /\ UNCHANGED added
    /\ UIVarsUnchanged

\* memory.clear()
Clear ==
    /\ pc = "calls"
    /\ prev_op' = op
    /\ session_keys' = session_keys \cup {"chat_history"}
    /\ chat_history' = clear_history
    /\ added' = <<>>
    /\ op' = "clear"
    /\ NoResult
    /\ UIVarsUnchanged

\* memory.format_for_prompt()
FormatForPrompt ==
    /\ pc = "calls"
    /\ prev_op' = op
    /\ session_keys' = session_keys \cup {"chat_history"}
    /\ chat_history' = History
    /\ ret' = format_for_prompt(History)
    /\ op' = "format_for_prompt"
    /\ ret_history' = <<>> /\ remote' = NoRemote /\ prompt' = <<>>
    /\ UNCHANGED added
    /\ UIVarsUnchanged

\* tutor.generate_response(q)
GenerateResponse ==
    /\ pc = "calls"
    /\ prev_op' = op
    /\ \E q \in Questions, o \in Outcomes :
          LET r == generate_response(q, o)
          IN  /\ ret' = r.value
              /\ op' = IF r.raises THEN "generate_response raised"
                                   ELSE "generate_response"
              /\ remote' = o
              /\ prompt' = prompt_sent(q, o)
    /\ session_keys' = session_keys \cup {"chat_history"}
    /\ chat_history' = History
    /\ ret_history' = <<>>
    /\ UNCHANGED added
    /\ UIVarsUnchanged

Next ==
    \/ AddExchange
    \/ GetConversationHistory
    \/ Clear
    \/ FormatForPrompt
    \/ GenerateResponse

Spec == Init /\ [][Next]_vars

----------------------------------------------------------------------------
(* SpecUI: the script main(), one action per group of statements *)

NoMemory == ConversationMemory(0)              \* placeholder while the key is missing
NoTutor == DataScienceTutor("", NoMemory)      \* placeholder while the key is missing

Message(role, content) == [role |-> role, content |-> content]

InitUI ==
    /\ session_keys = {}
    /\ chat_history = <<>>
    /\ messages = <<>>
    /\ GOOGLE_API_KEY = ""
    /\ memory = NoMemory
    /\ tutor = NoTutor
    /\ pc = "idle"
    /\ user_query = <<>>
    /\ response = <<>>
    /\ message_placeholder = <<>>
    /\ op = "init"
    /\ prev_op = "init"
    /\ ret = <<>>
    /\ ret_history = <<>>
    /\ remote = NoRemote
    /\ prompt = <<>>
    /\ added = <<>>
    /\ failures = 0

\* lines 156-166: a run of the script starts; its locals are fresh
MainStart ==
    /\ pc \in {"idle", "raised"}
    /\ pc' = "api_key"
    /\ session_keys' = session_keys \cup {"messages"}
    /\ messages' = IF "messages" \in session_keys THEN messages ELSE <<>>
    /\ user_query' = <<>>
    /\ response' = <<>>
    /\ message_placeholder' = <<>>
    /\ op' = "init"
    /\ NoResult
    /\ UNCHANGED <<chat_history, GOOGLE_API_KEY, memory, tutor, added, failures>>
    /\ UNCHANGED prev_op

\* the key check without st.stop()
ApiKeyCheck_no_stop ==
    /\ pc = "api_key"
    /\ IF "GOOGLE_API_KEY" \in session_keys
       THEN /\ pc' = "chat_input"
            /\ UNCHANGED <<session_keys, GOOGLE_API_KEY>>
       ELSE \E api_key \in ApiKeys \cup {""} :
               IF api_key # ""
               THEN /\ session_keys' = session_keys \cup {"GOOGLE_API_KEY"}
                    /\ GOOGLE_API_KEY' = api_key
                    /\ pc' = "init_memory"
               ELSE /\ pc' = "chat_input"
                    /\ UNCHANGED <<session_keys, GOOGLE_API_KEY>>
    /\ UNCHANGED <<chat_history, messages, memory, tutor, user_query, response,
                   message_placeholder, op, ret, ret_history, remote, prompt,
                   added, failures>>
    /\ UNCHANGED prev_op

\* lines 169-174 and 180-182: api_key is what the text input holds
ApiKeyCheck ==
    /\ pc = "api_key"
    /\ IF "GOOGLE_API_KEY" \in session_keys
       THEN /\ pc' = "chat_input"
            /\ UNCHANGED <<session_keys, GOOGLE_API_KEY>>
       ELSE \E api_key \in ApiKeys \cup {""} :
               IF api_key # ""
               THEN /\ session_keys' = session_keys \cup {"GOOGLE_API_KEY"}
                    /\ GOOGLE_API_KEY' = api_key
                    /\ pc' = "init_memory"
               ELSE /\ pc' = "idle"          \* st.stop()
                    /\ UNCHANGED <<session_keys, GOOGLE_API_KEY>>
    /\ UNCHANGED <<chat_history, messages, memory, tutor, user_query, response,
                   message_placeholder, op, ret, ret_history, remote, prompt,
                   added, failures>>
    /\ UNCHANGED prev_op

\* lines 176-177
InitMemory ==
    /\ pc = "init_memory"
    /\ pc' = "init_tutor"
    /\ IF "memory" \notin session_keys
       THEN /\ session_keys' = session_keys \cup {"memory"}
            /\ memory' = ConversationMemory(DefaultMaxHistory)
       ELSE UNCHANGED <<session_keys, memory>>
    /\ UNCHANGED <<chat_history, messages, GOOGLE_API_KEY, tutor, user_query,
                   response, message_placeholder, op, ret, ret_history, remote,
                   prompt, added, failures>>
    /\ UNCHANGED prev_op

\* lines 178-179
InitTutor ==
    /\ pc = "init_tutor"
    /\ pc' = "chat_input"
    /\ IF "tutor" \notin session_keys
       THEN /\ session_keys' = session_keys \cup {"tutor"}
            /\ tutor' = DataScienceTutor(GOOGLE_API_KEY, memory)
       ELSE UNCHANGED <<session_keys, tutor>>
    /\ UNCHANGED <<chat_history, messages, GOOGLE_API_KEY, memory, user_query,
                   response, message_placeholder, op, ret, ret_history, remote,
                   prompt, added, failures>>
    /\ UNCHANGED prev_op

\* lines 185-197: the chat input yields None or the submitted question
ChatInput ==
    /\ pc = "chat_input"
    /\ \E q \in UIQuestions \cup {<<>>} :
          /\ q # <<>> => Len(messages) + 2 <= MaxMessages
          /\ user_query' = q
          /\ pc' = IF q # <<>> THEN "append_user" ELSE "button"
    /\ UNCHANGED <<session_keys, chat_history, messages, GOOGLE_API_KEY, memory,
                   tutor, response, message_placeholder, op, ret, ret_history,
                   remote, prompt, added, failures>>
    /\ UNCHANGED prev_op

\* lines 199-201
AppendUserMessage ==
    /\ pc = "append_user"
    /\ pc' = "thinking"
    /\ messages' = Append(messages, Message("user", user_query))
    /\ UNCHANGED <<session_keys, chat_history, GOOGLE_API_KEY, memory, tutor,
                   user_query, response, message_placeholder, op, ret,
                   ret_history, remote, prompt, added, failures>>
    /\ UNCHANGED prev_op

\* lines 204-206
ShowThinking ==
    /\ pc = "thinking"
    /\ pc' = "generate"
    /\ message_placeholder' = Thinking
    /\ UNCHANGED <<session_keys, chat_history, messages, GOOGLE_API_KEY, memory,
                   tutor, user_query, response, op, ret, ret_history, remote,
                   prompt, added, failures>>
    /\ UNCHANGED prev_op

\* lines 209-210: reading a missing session key raises AttributeError
CallGenerateResponse ==
    /\ pc = "generate"
    /\ IF "tutor" \notin session_keys
       THEN /\ pc' = "raised"
            /\ UNCHANGED <<session_keys, chat_history, response, op, ret,
                           remote, prompt, failures>>
       ELSE /\ \E o \in Outcomes :
                  LET r == generate_response(user_query, o)
                  IN  /\ o.kind = "fail" => failures < MaxFailures
                      /\ failures' = IF o.kind = "fail" THEN failures + 1
                                                        ELSE failures
                      /\ pc' = IF r.raises THEN "raised" ELSE "add_exchange"
                      /\ op' = IF r.raises THEN "generate_response raised"
                                           ELSE "generate_response"
                      /\ response' = r.value
                      /\ ret' = r.value
                      /\ remote' = o
                      /\ prompt' = prompt_sent(user_query, o)
            /\ session_keys' = session_keys \cup {"chat_history"}
            /\ chat_history' = History
    /\ UNCHANGED <<messages, GOOGLE_API_KEY, memory, tutor, user_query,
                   message_placeholder, ret_history, added>>
    /\ UNCHANGED prev_op

\* line 213
StoreExchange ==
    /\ pc = "add_exchange"
    /\ IF "memory" \notin session_keys
       THEN /\ pc' = "raised"
            /\ UNCHANGED <<session_keys, chat_history, op, added>>
       ELSE /\ pc' = "display"
            /\ session_keys' = session_keys \cup {"chat_history"}
            /\ chat_history' =
                  add_exchange(History, memory.max_history, user_query, response)
            /\ added' = Append(added, Exchange(user_query, response))
            /\ op' = "add_exchange"
    /\ UNCHANGED <<messages, GOOGLE_API_KEY, memory, tutor, user_query, response,
                   message_placeholder, ret, ret_history, remote, prompt,
                   failures>>
    /\ UNCHANGED prev_op

\* line 216 moved before line 213: the answer is shown by the step that
\* stores, and this step shows nothing new
DisplayResponse_nothing ==
    /\ pc = "display"
    /\ pc' = "append_assistant"
    /\ UNCHANGED <<session_keys, chat_history, messages, GOOGLE_API_KEY, memory,
                   tutor, user_query, response, message_placeholder, op, ret,
                   ret_history, remote, prompt, added, failures>>
    /\ UNCHANGED prev_op

\* line 216
DisplayResponse ==
    /\ pc = "display"
    /\ pc' = "append_assistant"
    /\ message_placeholder' = response
    /\ UNCHANGED <<session_keys, chat_history, messages, GOOGLE_API_KEY, memory,
                   tutor, user_query, response, op, ret, ret_history, remote,
                   prompt, added, failures>>
    /\ UNCHANGED prev_op

\* line 219
AppendAssistantMessage ==
    /\ pc = "append_assistant"
    /\ pc' = "button"
    /\ messages' = Append(messages, Message("assistant", response))
    /\ UNCHANGED <<session_keys, chat_history, GOOGLE_API_KEY, memory, tutor,
                   user_query, response, message_placeholder, op, ret,
                   ret_history, remote, prompt, added, failures>>
    /\ UNCHANGED prev_op

\* lines 222-240: the button was clicked or not; st.rerun() ends the run
ClearButton ==
    /\ pc = "button"
    /\ \E clicked \in BOOLEAN :
          IF clicked
          THEN IF "memory" \notin session_keys
               THEN /\ pc' = "raised"
                    /\ messages' = <<>>
                    /\ UNCHANGED <<session_keys, chat_history, op, added>>
               ELSE /\ pc' = "idle"
                    /\ messages' = <<>>
                    /\ session_keys' = session_keys \cup {"chat_history"}
                    /\ chat_history' = clear_history
                    /\ added' = <<>>
                    /\ op' = "clear"
          ELSE /\ pc' = "idle"
               /\ UNCHANGED <<session_keys, chat_history, messages, op, added>>
    /\ UNCHANGED <<GOOGLE_API_KEY, memory, tutor, user_query, response,
                   message_placeholder, ret, ret_history, remote, prompt,
                   failures>>
    /\ UNCHANGED prev_op

NextUI ==
    \/ MainStart
    \/ ApiKeyCheck
    \/ InitMemory
    \/ InitTutor
    \/ ChatInput
    \/ AppendUserMessage
    \/ ShowThinking
    \/ CallGenerateResponse
    \/ StoreExchange
    \/ DisplayResponse
    \/ AppendAssistantMessage
    \/ ClearButton

SpecUI == InitUI /\ [][NextUI]_vars

----------------------------------------------------------------------------
(* Helpers of the properties *)

Last(s) == s[Len(s)]

SingleLine(s) == \A i \in 1..Len(s) : s[i] # NL

\* s.split("\n")
RECURSIVE SplitLines(_)
SplitLines(s) ==
    IF \A i \in 1..Len(s) : s[i] # NL
    THEN <<s>>
    ELSE LET i == CHOOSE j \in 1..Len(s) :
                      s[j] = NL /\ \A k \in 1..(j - 1) : s[k] # NL
         IN  <<SubSeq(s, 1, i - 1)>> \o SplitLines(SubSeq(s, i + 1, Len(s)))

StartsWith(s, p) == Len(s) >= Len(p) /\ SubSeq(s, 1, Len(p)) = p

CountLinesStartingWith(s, p) ==
    LET ls == SplitLines(s)
    IN  Cardinality({i \in 1..Len(ls) : StartsWith(ls[i], p)})

\* the last n elements of s, all of s when it is shorter
LastN(s, n) == SubSeq(s, Len(s) - Min(n, Len(s)) + 1, Len(s))

\* the transcript that shows the exchanges of s: question, then answer
RECURSIVE Transcript(_)
Transcript(s) ==
    IF s = <<>>
    THEN <<>>
    ELSE Transcript(SubSeq(s, 1, Len(s) - 1))
           \o <<Message("user", Last(s).user), Message("assistant", Last(s).assistant)>>

InQuestionHandler ==
    pc \in {"append_user", "thinking", "generate", "add_exchange", "display",
            "append_assistant"}

AfterKeyCheck ==
    pc \in {"chat_input", "append_user", "thinking", "generate", "add_exchange",
            "display", "append_assistant", "button"}

Displayed == message_placeholder # <<>> /\ message_placeholder = response

----------------------------------------------------------------------------
(* Properties *)

\* C1: in every state reached after an operation returns, the length of
\* History does not exceed the memory's max_history.
C1_LengthNeverExceedsMax == Len(History) <= memory.max_history

\* C2: once more than max_history exchanges were added to an empty History,
\* History is exactly the max_history most recently added ones, in order.
C2_KeepsMostRecent ==
    Len(added) > memory.max_history =>
        /\ Len(History) = memory.max_history
        /\ History = SubSeq(added, Len(added) - memory.max_history + 1, Len(added))

\* C3: when anything inside generate_response fails, the call does not raise
\* and returns "Error generating response: " followed by the failure's message.
C3_FailureBecomesErrorString ==
    /\ op # "generate_response raised"
    /\ (op = "generate_response" /\ remote.kind = "fail") =>
           ret = ErrorPrefix \o remote.text

C3_Witness ==
    /\ op = "generate_response"
    /\ remote.kind = "fail"
    /\ remote.stage = "model"
    /\ ret = ErrorPrefix \o E_quota

\* C4: History changes only when add_exchange stores the pair of a question
\* whose remote call returned an answer, or when the clear button empties it;
\* no exchange is stored for a question whose remote call failed.
C4_OnlyCompletedRoundTripsStored ==
    [][History' # History =>
          \/ /\ pc = "add_exchange"
             /\ remote.kind = "ok"
             /\ response = remote.text
             /\ History' = add_exchange(History, memory.max_history,
                                        user_query, response)
          \/ /\ pc = "button"
             /\ History' = <<>>]_vars

\* C5 as stated: the answer is on screen before its exchange is stored.
C5_DisplayedBeforeStored ==
    (InQuestionHandler /\ op = "add_exchange") => Displayed

\* C5 amended: the question is in the transcript before generate_response is
\* called; the exchange is stored after generate_response has returned and
\* while the placeholder still shows "Thinking..."; the answer is displayed
\* after the exchange is stored.
C5_StoredThenDisplayed ==
    /\ pc \in {"thinking", "generate"} =>
          /\ messages # <<>> /\ Last(messages) = Message("user", user_query)
          /\ op = "init"
          /\ ~Displayed
    /\ pc = "add_exchange" =>
          /\ Last(messages) = Message("user", user_query)
          /\ op = "generate_response" /\ ret = response
          /\ message_placeholder = Thinking
          /\ ~Displayed
    /\ pc = "display" =>
          /\ op = "add_exchange"
          /\ History # <<>> /\ Last(History) = Exchange(user_query, response)
          /\ message_placeholder = Thinking
          /\ ~Displayed
    /\ pc = "append_assistant" =>
          /\ op = "add_exchange"
          /\ Last(History) = Exchange(user_query, response)
          /\ Displayed
    /\ (InQuestionHandler /\ Displayed) => op = "add_exchange"

C5_Witness ==
    /\ pc = "display"
    /\ message_placeholder = Thinking
    /\ Last(History) = Exchange(user_query, response)
    /\ remote.kind = "ok"

\* C6: the question handler runs only with a stored credential and with the
\* tutor and memory built from it; without a stored credential the script
\* stops at the key check; reading the tutor or the memory never fails.
C6_HandlerHasCredentialAndTutor ==
    /\ AfterKeyCheck =>
          /\ {"GOOGLE_API_KEY", "memory", "tutor"} \subseteq session_keys
          /\ GOOGLE_API_KEY # ""
          /\ memory = ConversationMemory(DefaultMaxHistory)
          /\ tutor = DataScienceTutor(GOOGLE_API_KEY, memory)
    /\ "GOOGLE_API_KEY" \notin session_keys => pc \in {"idle", "api_key"}
    /\ ("GOOGLE_API_KEY" \in session_keys /\ pc \notin {"init_memory", "init_tutor"})
          => {"memory", "tutor"} \subseteq session_keys
    /\ pc # "raised"

C6_Witness ==
    /\ pc = "add_exchange"
    /\ op = "generate_response"
    /\ tutor = DataScienceTutor("k1", ConversationMemory(DefaultMaxHistory))

\* C7 as stated: for all questions and answers, the output of
\* format_for_prompt has exactly one line starting with "Human:" and one
\* starting with "AI Tutor:" per stored exchange (and is empty for an empty
\* History).
C7_OneLabelLinePerExchange ==
    op = "format_for_prompt" =>
        /\ History = <<>> => ret = <<>>
        /\ CountLinesStartingWith(ret, HumanLabel) = Len(History)
        /\ CountLinesStartingWith(ret, TutorLabel) = Len(History)

\* C7 amended: empty History gives the empty string; the output has at least
\* one "Human:" line and one "AI Tutor:" line per stored exchange; when no
\* stored question or answer contains a newline it has exactly one of each
\* per exchange, and its lines are, per exchange in arrival order,
\* "Human: <question>", "AI Tutor: <answer>" and an empty line.
C7_FormatOfSingleLineExchanges ==
    op = "format_for_prompt" =>
        LET k == Len(History)
            ls == SplitLines(ret)
        IN  /\ History = <<>> => ret = <<>>
            /\ CountLinesStartingWith(ret, HumanLabel) >= k
            /\ CountLinesStartingWith(ret, TutorLabel) >= k
            /\ (\A i \in 1..k : SingleLine(History[i].user)
                                 /\ SingleLine(History[i].assistant)) =>
                  /\ CountLinesStartingWith(ret, HumanLabel) = k
                  /\ CountLinesStartingWith(ret, TutorLabel) = k
                  /\ Len(ls) = 3 * k + 1
                  /\ ls[3 * k + 1] = <<>>
                  /\ \A i \in 1..k :
                        /\ ls[3 * i - 2] = HumanLabel \o <<" ">> \o History[i].user
                        /\ ls[3 * i - 1] = TutorLabel \o <<" ">> \o History[i].assistant
                        /\ ls[3 * i] = <<>>

C7_Witness ==
    /\ op = "format_for_prompt"
    /\ Len(History) = 2
    /\ History[1] # History[2]
    /\ \A i \in 1..2 : SingleLine(History[i].user) /\ SingleLine(History[i].assistant)
    /\ CountLinesStartingWith(ret, HumanLabel) = 2

\* C8: when the remote call succeeds with text T, generate_response returns
\* exactly T; storing a pair into an empty History leaves it with length 1.
C8_SuccessReturnsTextVerbatim ==
    /\ (op = "generate_response" /\ remote.kind = "ok") => ret = remote.text
    /\ (op = "add_exchange" /\ Len(added) = 1) =>
           /\ Len(History) = 1
           /\ History[1] = added[1]

C8_Witness ==
    /\ op = "add_exchange"
    /\ prev_op = "generate_response"
    /\ Len(added) = 1
    /\ History = <<Exchange(Q_a, A_1)>>

\* C9: get_conversation_history right after clear returns the empty list,
\* also when no list existed before; get_conversation_history never changes
\* the contents of History, it only creates the missing list.
C9_ClearThenGetIsEmpty ==
    [][/\ (op = "clear" /\ op' = "get_conversation_history") => ret_history' = <<>>
       /\ op' = "get_conversation_history" =>
             /\ History' = History
             /\ ret_history' = History
             /\ "chat_history" \in session_keys']_vars

C9_Witness ==
    /\ op = "get_conversation_history"
    /\ prev_op = "clear"
    /\ ret_history = <<>>
    /\ added = <<>>

\* C10: between question handlers the transcript shows exactly the exchanges
\* handled since the last clear, two messages each, and History is the last
\* min(k, max_history) of those k exchanges; an answer is in the transcript
\* only with its exchange stored; after a clear both are empty.
C10_TranscriptMatchesMemory ==
    /\ \A i \in 1..Len(messages) :
          messages[i].role = IF i % 2 = 1 THEN "user" ELSE "assistant"
    /\ pc \notin {"thinking", "generate", "add_exchange", "display", "append_assistant"} =>
          /\ messages = Transcript(added)
          /\ History = LastN(added, Min(Len(added), memory.max_history))
    /\ pc \in {"thinking", "generate", "add_exchange"} =>
          messages = Transcript(added) \o <<Message("user", user_query)>>
    /\ pc \in {"display", "append_assistant"} =>
          /\ messages \o <<Message("assistant", response)>> = Transcript(added)
          /\ History = LastN(added, Min(Len(added), memory.max_history))
    /\ (pc = "idle" /\ op = "clear") => messages = <<>> /\ History = <<>>

C10_Witness ==
    /\ pc = "idle"
    /\ Len(messages) > 2 * DefaultMaxHistory
    /\ Len(History) = DefaultMaxHistory
    /\ \E i \in 1..Len(History) : History[i].assistant = ErrorPrefix \o E_quota

====
